---- MODULE Spec2Model ----
(***************************************************************************)
(* Model of the `differential` package: Differentiable objects (a pair of  *)
(* value/derivative callables), the visitor classes that combine them, the *)
(* type-keyed dispatch tables behind the arithmetic operators, and the     *)
(* elementary constructors Sqrt, Cos, Sin, Constant, Linear.               *)
(*                                                                         *)
(* A closure is represented by the object it closes over: every            *)
(* Differentiable on the heap records which lambda pair it holds (kind)    *)
(* and the captured variables (one, other, constant).  Calling a lambda is *)
(* the recursive operator Value / Derivative, which follows the captured   *)
(* references exactly as the Python closures do.                           *)
(*                                                                         *)
(* Numbers are exact rationals n/d; a raised exception is a result whose   *)
(* field e names the exception class.                                      *)
(***************************************************************************)
EXTENDS Integers, Sequences, FiniteSets

\* Largest number of Differentiable objects alive in one run.
MaxObjs == 3

\* Evaluation points.
Points == {-1, 0, 2}

\* Arguments given to Constant(k) and Linear(k).
Ks == {-1, 0, 2}

-----------------------------------------------------------------------------
(* Numbers and exceptions *)

Abs(n) == IF n < 0 THEN -n ELSE n

RECURSIVE GCD(_, _)
GCD(a, b) == IF b = 0 THEN a ELSE GCD(b, a % b)

\* A number n/d in lowest terms with d > 0.
Num(n, d) ==
    LET g == GCD(Abs(n), Abs(d))
        s == IF d < 0 THEN -1 ELSE 1
    IN  [e |-> "none", n |-> (s * n) \div g, d |-> (s * d) \div g]

Whole(n) == [e |-> "none", n |-> n, d |-> 1]

\* The outcome of an expression that raised exception class e.
Raise(e) == [e |-> e, n |-> 0, d |-> 1]

IsErr(r) == r.e # "none"
IsNum(r) == r.e = "none"
IsZero(r) == IsNum(r) /\ r.n = 0

\* Python evaluates the left operand first; an exception raised there leaves
\* the right operand unevaluated, otherwise the right operand's exception
\* propagates.
Add(a, b) ==
    IF IsErr(a) THEN a ELSE IF IsErr(b) THEN b
    ELSE Num(a.n * b.d + b.n * a.d, a.d * b.d)

Sub(a, b) ==
    IF IsErr(a) THEN a ELSE IF IsErr(b) THEN b
    ELSE Num(a.n * b.d - b.n * a.d, a.d * b.d)

Mul(a, b) ==
    IF IsErr(a) THEN a ELSE IF IsErr(b) THEN b
    ELSE Num(a.n * b.n, a.d * b.d)

\* a / b raises ZeroDivisionError when b is zero.
Div(a, b) ==
    IF IsErr(a) THEN a ELSE IF IsErr(b) THEN b
    ELSE IF b.n = 0 THEN Raise("ZeroDivisionError")
    ELSE Num(a.n * b.d, a.d * b.n)

Neg(a) == IF IsErr(a) THEN a ELSE Num(-a.n, a.d)

Pow2(a) == IF IsErr(a) THEN a ELSE Num(a.n * a.n, a.d * a.d)

Half == Num(1, 2)

RECURSIVE ISqrtFrom(_, _)
ISqrtFrom(n, r) == IF (r + 1) * (r + 1) > n THEN r ELSE ISqrtFrom(n, r + 1)

\* Largest r with r*r <= n.
ISqrt(n) == ISqrtFrom(n, 0)

\* math.sqrt: ValueError on a negative argument; otherwise the root, exact
\* when n/d is a square and rounded down to a multiple of 1/d when not (the
\* library rounds to the nearest representable number).
MathSqrt(a) ==
    IF IsErr(a) THEN a
    ELSE IF a.n < 0 THEN Raise("ValueError")
    ELSE Num(ISqrt(a.n * a.d), a.d)

\* Rounds n/d toward zero to a multiple of 1/4.
Quarter(n, d) ==
    IF n < 0 THEN Num(-((4 * (-n)) \div d), 4) ELSE Num((4 * n) \div d, 4)

\* math.sin / math.cos: total on finite numbers, result in [-1, 1].  The model
\* takes the rational parametrisation of the unit circle (2t/(1+t^2),
\* (1-t^2)/(1+t^2)) rounded to quarters, so that sin(0) = 0 and cos(0) = 1.
MathSin(a) ==
    IF IsErr(a) THEN a
    ELSE Quarter(2 * a.n * a.d, a.d * a.d + a.n * a.n)

MathCos(a) ==
    IF IsErr(a) THEN a
    ELSE Quarter(a.d * a.d - a.n * a.n, a.d * a.d + a.n * a.n)

-----------------------------------------------------------------------------
(* Operands and objects *)

\* An operand handed to an operator or constructor, tagged with type(operand):
\* a float or an int (v is its value), a Differentiable (v is its place on
\* the heap) or an object of any other class ("str").
Float(v)  == [t |-> "float", v |-> v]
IntOp(v)  == [t |-> "int", v |-> v]
Ref(i)    == [t |-> "Differentiable", v |-> i]
StrOp     == [t |-> "str", v |-> 0]
NoOperand == [t |-> "none", v |-> 0]

\* Callables a caller hands to the raw constructor: x*x and 2*x (as the tests
\* do), math.sqrt (ValueError below 0) and its derivative 0.5 / math.sqrt(x)
\* (ValueError below 0, ZeroDivisionError at 0).
Apply(m, x) ==
    CASE m = "sq"     -> Whole(x * x)
      [] m = "dbl"    -> Whole(2 * x)
      [] m = "msqrt"  -> MathSqrt(Whole(x))
      [] m = "dmsqrt" -> Div(Half, MathSqrt(Whole(x)))

\* The (value, derivative) pairs the raw constructor is called with.
RawPairs == {<<"sq", "dbl">>, <<"msqrt", "dmsqrt">>}

\* The dataclass instance: the kind of lambda pair stored in value/derivative
\* and the variables those lambdas captured.
Obj(kind, one, other, constant, vf, df) ==
    [kind |-> kind, one |-> one, other |-> other, constant |-> constant,
     vf |-> vf, df |-> df]

\* Differentiable(value=vf, derivative=df) called with two caller callables.
Differentiable(vf, df) == Obj("Raw", 0, NoOperand, 0, vf, df)

-----------------------------------------------------------------------------
(* Calling the stored lambdas *)

RECURSIVE Value(_, _, _), Derivative(_, _, _)

\* operand.value(x) / operand.derivative(x) on a captured operand: an operand
\* that is no Differentiable has neither attribute.
ValueOf(h, o, x) ==
    IF o.t = "Differentiable" THEN Value(h, o.v, x) ELSE Raise("AttributeError")

DerivativeOf(h, o, x) ==
    IF o.t = "Differentiable" THEN Derivative(h, o.v, x) ELSE Raise("AttributeError")

AddConstant_value(h, n, x) == Add(Value(h, n.one, x), Whole(n.constant))
AddConstant_derivative(h, n, x) == Derivative(h, n.one, x)

AddDifferentiable_value(h, n, x) == Add(Value(h, n.one, x), ValueOf(h, n.other, x))
AddDifferentiable_derivative(h, n, x) ==
    Add(Derivative(h, n.one, x), DerivativeOf(h, n.other, x))

SubConstant_value(h, n, x) == Sub(Value(h, n.one, x), Whole(n.constant))
SubConstant_derivative(h, n, x) == Derivative(h, n.one, x)

RSubConstant_value(h, n, x) == Sub(Whole(n.constant), Value(h, n.one, x))
RSubConstant_derivative(h, n, x) == Neg(Derivative(h, n.one, x))

SubDifferentiable_value(h, n, x) == Sub(Value(h, n.one, x), ValueOf(h, n.other, x))
SubDifferentiable_derivative(h, n, x) ==
    Sub(Derivative(h, n.one, x), DerivativeOf(h, n.other, x))

ScaleDifferentiable_value(h, n, x) == Mul(Whole(n.constant), Value(h, n.one, x))
ScaleDifferentiable_derivative(h, n, x) ==
    Mul(Whole(n.constant), Derivative(h, n.one, x))

MultiplyDifferentiable_value(h, n, x) ==
    Mul(ValueOf(h, n.other, x), Value(h, n.one, x))
\* A product "rule" that multiplies the derivatives.
MultiplyDifferentiable_derivative_naive(h, n, x) ==
    Mul(DerivativeOf(h, n.other, x), Derivative(h, n.one, x))

MultiplyDifferentiable_derivative(h, n, x) ==
    Add(Mul(DerivativeOf(h, n.other, x), Value(h, n.one, x)),
        Mul(Derivative(h, n.one, x), ValueOf(h, n.other, x)))

TrueDivDifferentiable_value(h, n, x) ==
    Div(Value(h, n.one, x), ValueOf(h, n.other, x))
\* A quotient "rule" that divides by g(x) instead of g(x)**2.
TrueDivDifferentiable_derivative_unsquared(h, n, x) ==
    Div(Sub(Mul(Derivative(h, n.one, x), ValueOf(h, n.other, x)),
            Mul(DerivativeOf(h, n.other, x), Value(h, n.one, x))),
        ValueOf(h, n.other, x))

TrueDivDifferentiable_derivative(h, n, x) ==
    Div(Sub(Mul(Derivative(h, n.one, x), ValueOf(h, n.other, x)),
            Mul(DerivativeOf(h, n.other, x), Value(h, n.one, x))),
        Pow2(ValueOf(h, n.other, x)))

Sqrt_value(h, n, x) == MathSqrt(ValueOf(h, n.other, x))
\* A derivative that guards the division and returns 0 where sqrt(f) is 0.
Sqrt_derivative_guarded(h, n, x) ==
    IF IsZero(MathSqrt(ValueOf(h, n.other, x))) THEN Whole(0)
    ELSE Div(Mul(Half, DerivativeOf(h, n.other, x)), MathSqrt(ValueOf(h, n.other, x)))

Sqrt_derivative(h, n, x) ==
    Div(Mul(Half, DerivativeOf(h, n.other, x)), MathSqrt(ValueOf(h, n.other, x)))

Cos_value(h, n, x) == MathCos(ValueOf(h, n.other, x))
Cos_derivative(h, n, x) ==
    Mul(Neg(MathSin(ValueOf(h, n.other, x))), DerivativeOf(h, n.other, x))

\* A value that catches whatever its operand raises and returns 0.
Sin_value_swallow(h, n, x) ==
    IF IsErr(ValueOf(h, n.other, x)) THEN Whole(0)
    ELSE MathSin(ValueOf(h, n.other, x))

Sin_value(h, n, x) == MathSin(ValueOf(h, n.other, x))
Sin_derivative(h, n, x) ==
    Mul(MathCos(ValueOf(h, n.other, x)), DerivativeOf(h, n.other, x))

Constant_value(h, n, x) == Whole(n.constant)
Constant_derivative(h, n, x) == Whole(0)

Linear_value(h, n, x) == Mul(Whole(n.constant), Whole(x))
Linear_derivative(h, n, x) == Whole(n.constant)

\* h[i].value(x): calls the callable stored in the value field.
Value(h, i, x) ==
    LET n == h[i] IN
    CASE n.kind = "Raw"                    -> Apply(n.vf, x)
      [] n.kind = "AddConstant"            -> AddConstant_value(h, n, x)
      [] n.kind = "AddDifferentiable"      -> AddDifferentiable_value(h, n, x)
      [] n.kind = "SubConstant"            -> SubConstant_value(h, n, x)
      [] n.kind = "RSubConstant"           -> RSubConstant_value(h, n, x)
      [] n.kind = "SubDifferentiable"      -> SubDifferentiable_value(h, n, x)
      [] n.kind = "ScaleDifferentiable"    -> ScaleDifferentiable_value(h, n, x)
      [] n.kind = "MultiplyDifferentiable" -> MultiplyDifferentiable_value(h, n, x)
      [] n.kind = "TrueDivDifferentiable"  -> TrueDivDifferentiable_value(h, n, x)
      [] n.kind = "Sqrt"                   -> Sqrt_value(h, n, x)
      [] n.kind = "Cos"                    -> Cos_value(h, n, x)
      [] n.kind = "Sin"                    -> Sin_value(h, n, x)
      [] n.kind = "Constant"               -> Constant_value(h, n, x)
      [] n.kind = "Linear"                 -> Linear_value(h, n, x)

\* h[i].derivative(x): calls the callable stored in the derivative field.
Derivative(h, i, x) ==
    LET n == h[i] IN
    CASE n.kind = "Raw"                    -> Apply(n.df, x)
      [] n.kind = "AddConstant"            -> AddConstant_derivative(h, n, x)
      [] n.kind = "AddDifferentiable"      -> AddDifferentiable_derivative(h, n, x)
      [] n.kind = "SubConstant"            -> SubConstant_derivative(h, n, x)
      [] n.kind = "RSubConstant"           -> RSubConstant_derivative(h, n, x)
      [] n.kind = "SubDifferentiable"      -> SubDifferentiable_derivative(h, n, x)
      [] n.kind = "ScaleDifferentiable"    -> ScaleDifferentiable_derivative(h, n, x)
      [] n.kind = "MultiplyDifferentiable" -> MultiplyDifferentiable_derivative(h, n, x)
      [] n.kind = "TrueDivDifferentiable"  -> TrueDivDifferentiable_derivative(h, n, x)
      [] n.kind = "Sqrt"                   -> Sqrt_derivative(h, n, x)
      [] n.kind = "Cos"                    -> Cos_derivative(h, n, x)
      [] n.kind = "Sin"                    -> Sin_derivative(h, n, x)
      [] n.kind = "Constant"               -> Constant_derivative(h, n, x)
      [] n.kind = "Linear"                 -> Linear_derivative(h, n, x)

-----------------------------------------------------------------------------
(* Building objects *)

VARIABLES heap, ret
vars == <<heap, ret>>

\* What a call hands back: the object returned (out) or the exception raised
\* (exc), how often a visitor's visit method ran (visits) and with which
\* argument (arg), and how many value/derivative callables the call invoked.
Outcome(h, out, exc, visits, arg, invoked) ==
    [heap |-> h, out |-> out, exc |-> exc, visits |-> visits, arg |-> arg,
     invoked |-> invoked]

\* return Differentiable(value=..., derivative=...): a new instance.
New(h, obj) == Outcome(Append(h, obj), Ref(Len(h) + 1), "none", 0, 0, 0)

\* An exception leaving the call.
Fail(h, e) == Outcome(h, NoOperand, e, 0, 0, 0)

\* A visitor instance: its class and the argument its __init__ stored.
Visitor(cls, arg) == [cls |-> cls, arg |-> arg]

\* A visit that adds the constant to its operand in place and returns it.
AddConstant_visit_inplace(h, v, one) ==
    Outcome([h EXCEPT ![one].constant = @ + v.arg.v], Ref(one), "none", 0, 0, 0)

AddConstant_visit(h, v, one) ==
    New(h, Obj("AddConstant", one, NoOperand, v.arg.v, "", ""))

AddDifferentiable_visit(h, v, one) ==
    New(h, Obj("AddDifferentiable", one, v.arg, 0, "", ""))

SubConstant_visit(h, v, one) ==
    New(h, Obj("SubConstant", one, NoOperand, v.arg.v, "", ""))

RSubConstant_visit(h, v, one) ==
    New(h, Obj("RSubConstant", one, NoOperand, v.arg.v, "", ""))

SubDifferentiable_visit(h, v, one) ==
    New(h, Obj("SubDifferentiable", one, v.arg, 0, "", ""))

ScaleDifferentiable_visit(h, v, one) ==
    New(h, Obj("ScaleDifferentiable", one, NoOperand, v.arg.v, "", ""))

MultiplyDifferentiable_visit(h, v, one) ==
    New(h, Obj("MultiplyDifferentiable", one, v.arg, 0, "", ""))

TrueDivDifferentiable_visit(h, v, one) ==
    New(h, Obj("TrueDivDifferentiable", one, v.arg, 0, "", ""))

\* The test double of the tests: visit counts the call and returns "ok".
Spy_visit(h, v, one) == Outcome(h, StrOp, "none", 0, 0, 0)

\* visitor.visit(one), resolved on the visitor's class.
Visit(h, v, one) ==
    CASE v.cls = "AddConstant"            -> AddConstant_visit(h, v, one)
      [] v.cls = "AddDifferentiable"      -> AddDifferentiable_visit(h, v, one)
      [] v.cls = "SubConstant"            -> SubConstant_visit(h, v, one)
      [] v.cls = "RSubConstant"           -> RSubConstant_visit(h, v, one)
      [] v.cls = "SubDifferentiable"      -> SubDifferentiable_visit(h, v, one)
      [] v.cls = "ScaleDifferentiable"    -> ScaleDifferentiable_visit(h, v, one)
      [] v.cls = "MultiplyDifferentiable" -> MultiplyDifferentiable_visit(h, v, one)
      [] v.cls = "TrueDivDifferentiable"  -> TrueDivDifferentiable_visit(h, v, one)
      [] v.cls = "Spy"                    -> Spy_visit(h, v, one)

\* A call that runs visit twice and returns the second result.
Visitable_call_twice(h, self, visitor) ==
    LET r1 == Visit(h, visitor, self)
        r  == Visit(r1.heap, visitor, self)
    IN  Outcome(r.heap, r.out, r.exc, r.visits + 2, self, r.invoked)

\* _Visitable.__call__: return visitor.visit(self).
Visitable_call(h, self, visitor) ==
    LET r == Visit(h, visitor, self)
    IN  Outcome(r.heap, r.out, r.exc, r.visits + 1, self, r.invoked)

\* The dispatch tables: the visitor class registered for type(other), or the
\* KeyError of a dict lookup that finds no such key.
add_dispatch(t) ==
    CASE t = "float"          -> "AddConstant"
      [] t = "Differentiable" -> "AddDifferentiable"
      [] OTHER                -> "KeyError"

mul_dispatch(t) ==
    CASE t = "float"          -> "ScaleDifferentiable"
      [] t = "Differentiable" -> "MultiplyDifferentiable"
      [] OTHER                -> "KeyError"

sub_dispatch(t) ==
    CASE t = "float"          -> "SubConstant"
      [] t = "Differentiable" -> "SubDifferentiable"
      [] OTHER                -> "KeyError"

rsub_dispatch(t) ==
    CASE t = "float"          -> "RSubConstant"
      [] t = "Differentiable" -> "SubDifferentiable"
      [] OTHER                -> "KeyError"

add_operator(h, self, other) ==
    LET cls == add_dispatch(other.t)
    IN  IF cls = "KeyError" THEN Fail(h, "KeyError")
        ELSE Visitable_call(h, self, Visitor(cls, other))

sub_operator(h, self, other) ==
    LET cls == sub_dispatch(other.t)
    IN  IF cls = "KeyError" THEN Fail(h, "KeyError")
        ELSE Visitable_call(h, self, Visitor(cls, other))

rsub_operator(h, self, other) ==
    LET cls == rsub_dispatch(other.t)
    IN  IF cls = "KeyError" THEN Fail(h, "KeyError")
        ELSE Visitable_call(h, self, Visitor(cls, other))

mul_operator(h, self, other) ==
    LET cls == mul_dispatch(other.t)
    IN  IF cls = "KeyError" THEN Fail(h, "KeyError")
        ELSE Visitable_call(h, self, Visitor(cls, other))

truediv_operator(h, self, other) ==
    Visitable_call(h, self, Visitor("TrueDivDifferentiable", other))

\* The elementary constructors.
Sqrt(h, f) == New(h, Obj("Sqrt", 0, f, 0, "", ""))
Cos(h, f) == New(h, Obj("Cos", 0, f, 0, "", ""))
Sin(h, f) == New(h, Obj("Sin", 0, f, 0, "", ""))
Constant(h, k) == New(h, Obj("Constant", 0, NoOperand, k, "", ""))
Linear(h, k) == New(h, Obj("Linear", 0, NoOperand, k, "", ""))

-----------------------------------------------------------------------------
(* Evaluating *)

Call(o, w) == [o |-> o, w |-> w]

\* The operand callables a stored lambda calls, in the order its expression
\* evaluates them.
Calls(n, w) ==
    LET one == Ref(n.one)
        V(o) == Call(o, "value")
        D(o) == Call(o, "derivative")
    IN
    CASE n.kind \in {"Raw", "Constant", "Linear"} -> <<>>
      [] n.kind \in {"AddConstant", "SubConstant"} ->
            IF w = "value" THEN <<V(one)>> ELSE <<D(one)>>
      [] n.kind \in {"RSubConstant", "ScaleDifferentiable"} ->
            IF w = "value" THEN <<V(one)>> ELSE <<D(one)>>
      [] n.kind \in {"AddDifferentiable", "SubDifferentiable"} ->
            IF w = "value" THEN <<V(one), V(n.other)>> ELSE <<D(one), D(n.other)>>
      [] n.kind = "MultiplyDifferentiable" ->
            IF w = "value" THEN <<V(n.other), V(one)>>
            ELSE <<D(n.other), V(one), D(one), V(n.other)>>
      [] n.kind = "TrueDivDifferentiable" ->
            IF w = "value" THEN <<V(one), V(n.other)>>
            ELSE <<D(one), V(n.other), D(n.other), V(one), V(n.other)>>
      [] n.kind = "Sqrt" ->
            IF w = "value" THEN <<V(n.other)>> ELSE <<D(n.other), V(n.other)>>
      [] n.kind \in {"Cos", "Sin"} ->
            IF w = "value" THEN <<V(n.other)>> ELSE <<V(n.other), D(n.other)>>

\* The result of one call of a callable of object i.
Result(h, i, w, x) == IF w = "value" THEN Value(h, i, x) ELSE Derivative(h, i, x)

\* The operand callables that object i's callable w calls itself while it runs
\* at x, each with what it returned or raised (r): the calls of its
\* expression up to the first that raises.
Invoked(h, i, w, x) ==
    LET cs  == Calls(h[i], w)
        rs  == [k \in 1..Len(cs) |->
                  IF cs[k].o.t = "Differentiable"
                  THEN Result(h, cs[k].o.v, cs[k].w, x)
                  ELSE Raise("AttributeError")]
        run == {k \in 1..Len(cs) : /\ cs[k].o.t = "Differentiable"
                                   /\ \A k2 \in 1..(k - 1) : IsNum(rs[k2])}
    IN  {[i |-> cs[k].o.v, w |-> cs[k].w, r |-> rs[k]] : k \in run}

RECURSIVE Walk(_, _, _, _)

\* The calls S together with those made in turn by the calls of S on the
\* objects j, j - 1, ..., 1 (an object's callables only call older objects).
Walk(h, S, j, x) ==
    IF j = 0 THEN S
    ELSE LET ws == {c.w : c \in {c \in S : c.i = j}}
         IN  Walk(h, S \cup UNION {Invoked(h, j, w, x) : w \in ws}, j - 1, x)

\* The operand callables invoked, directly or deeper, while object i's
\* callable w runs at x; an exception ends the run where it is raised.
Trace(h, i, w, x) == Walk(h, Invoked(h, i, w, x), i - 1, x)

-----------------------------------------------------------------------------
(* The state machine: a session that builds objects.  The value and          *)
(* derivative callables are pure: Value and Derivative above give what a     *)
(* call at any point returns or raises in the current state.                  *)

\* Scalars and other objects handed to the operators and constructors.
Floats  == {Float(2)}
Ints    == {IntOp(2)}
Others  == {StrOp}

Refs(h) == {Ref(i) : i \in 1..Len(h)}

\* Operands of the types the dispatch tables register.
Registered(h) == Refs(h) \cup Floats

\* Operands of any type.
Anything(h) == Refs(h) \cup Floats \cup Ints \cup Others

Init ==
    /\ heap = <<>>
    /\ ret = [op |-> "init", self |-> 0, other |-> NoOperand,
              out |-> NoOperand, exc |-> "none",
              visits |-> 0, arg |-> 0, invoked |-> 0]

\* One call op(self, other) with outcome r.
Do(op, self, other, r) ==
    /\ Len(r.heap) <= MaxObjs
    /\ heap' = r.heap
    /\ ret' = [op |-> op, self |-> self, other |-> other,
               out |-> r.out, exc |-> r.exc,
               visits |-> r.visits, arg |-> r.arg, invoked |-> r.invoked]

\* Whether one more object fits the bound of the model.
Room == Len(heap) < MaxObjs

NewRaw == Room /\ \E p \in RawPairs :
    Do("Differentiable", 0, NoOperand, New(heap, Differentiable(p[1], p[2])))

NewConstant == Room /\ \E k \in Ks : Do("Constant", 0, Float(k), Constant(heap, k))

NewLinear == Room /\ \E k \in Ks : Do("Linear", 0, Float(k), Linear(heap, k))

NewSqrt(S) == Room /\ \E f \in S : Do("Sqrt", 0, f, Sqrt(heap, f))

NewCos(S) == Room /\ \E f \in S : Do("Cos", 0, f, Cos(heap, f))

NewSin(S) == Room /\ \E f \in S : Do("Sin", 0, f, Sin(heap, f))

\* self + other
DoAdd(S) == \E other \in S :
    /\ Room \/ add_dispatch(other.t) = "KeyError"
    /\ \E self \in 1..Len(heap) :
          Do("add", self, other, add_operator(heap, self, other))

\* other + self, which Python resolves to self.__radd__(other)
DoRAdd(S) == \E other \in S :
    /\ Room \/ add_dispatch(other.t) = "KeyError"
    /\ \E self \in 1..Len(heap) :
          Do("radd", self, other, add_operator(heap, self, other))

\* self - other
DoSub(S) == \E other \in S :
    /\ Room \/ sub_dispatch(other.t) = "KeyError"
    /\ \E self \in 1..Len(heap) :
          Do("sub", self, other, sub_operator(heap, self, other))

\* other - self, which Python resolves to self.__rsub__(other)
DoRSub(S) == \E other \in S :
    /\ Room \/ rsub_dispatch(other.t) = "KeyError"
    /\ \E self \in 1..Len(heap) :
          Do("rsub", self, other, rsub_operator(heap, self, other))

\* self * other
DoMul(S) == \E other \in S :
    /\ Room \/ mul_dispatch(other.t) = "KeyError"
    /\ \E self \in 1..Len(heap) :
          Do("mul", self, other, mul_operator(heap, self, other))

\* other * self, which Python resolves to self.__rmul__(other)
DoRMul(S) == \E other \in S :
    /\ Room \/ mul_dispatch(other.t) = "KeyError"
    /\ \E self \in 1..Len(heap) :
          Do("rmul", self, other, mul_operator(heap, self, other))

\* self / other
DoTrueDiv(S) == Room /\ \E self \in 1..Len(heap), other \in S :
    Do("truediv", self, other, truediv_operator(heap, self, other))

\* self(Spy())
DoCall == \E self \in 1..Len(heap) :
    Do("call", self, NoOperand, Visitable_call(heap, self, Visitor("Spy", NoOperand)))

\* Sessions whose operands have the documented types.
Next ==
    \/ NewRaw \/ NewConstant \/ NewLinear
    \/ NewSqrt(Refs(heap)) \/ NewCos(Refs(heap)) \/ NewSin(Refs(heap))
    \/ DoAdd(Registered(heap)) \/ DoRAdd(Floats)
    \/ DoSub(Registered(heap)) \/ DoRSub(Registered(heap))
    \/ DoMul(Registered(heap)) \/ DoRMul(Floats)
    \/ DoTrueDiv(Refs(heap))

Spec == Init /\ [][Next]_vars

\* Sessions that hand the operators operands of any type.
NextDispatch ==
    \/ NewLinear
    \/ DoAdd(Anything(heap)) \/ DoRAdd(Anything(heap))
    \/ DoSub(Anything(heap)) \/ DoRSub(Anything(heap))
    \/ DoMul(Anything(heap)) \/ DoRMul(Anything(heap))
    \/ DoTrueDiv(Anything(heap))
    \/ NewSqrt(Others) \/ NewCos(Others) \/ NewSin(Others)

SpecDispatch == Init /\ [][NextDispatch]_vars

\* Sessions that also call objects with a visitor of their own.
NextCall ==
    \/ NewRaw \/ NewConstant
    \/ DoAdd(Registered(heap)) \/ DoRAdd(Floats)
    \/ DoSub(Registered(heap)) \/ DoRSub(Registered(heap))
    \/ DoMul(Registered(heap)) \/ DoRMul(Floats)
    \/ DoTrueDiv(Refs(heap))
    \/ DoCall

SpecCall == Init /\ [][NextCall]_vars

\* Sessions that nest the combinators and elementary functions over raw
\* callables, which fail outside their domain.
NextNest ==
    \/ NewRaw
    \/ NewSqrt(Refs(heap)) \/ NewCos(Refs(heap)) \/ NewSin(Refs(heap))
    \/ DoAdd(Registered(heap)) \/ DoRAdd(Floats)
    \/ DoSub(Registered(heap)) \/ DoRSub(Registered(heap))
    \/ DoMul(Registered(heap)) \/ DoRMul(Floats)
    \/ DoTrueDiv(Refs(heap))

SpecNest == Init /\ [][NextNest]_vars

-----------------------------------------------------------------------------
(* Properties *)

\* The object the latest call returned, its receiver and its operand.
Made == ret.exc = "none" /\ ret.out.t = "Differentiable"
V(i, x) == Value(heap, i, x)
D(i, x) == Derivative(heap, i, x)

\* The scalar the latest call was given, as a number.
C == Whole(ret.other.v)

\* C2: for Differentiable operands f (receiver) and g, at every point where
\* the four mappings of f and g succeed, f + g, f - g and f * g follow the
\* sum, difference and product rules; for f = Linear(a), g = Linear(b) the
\* product has value a*b*x*x and derivative 2*a*b*x.
C2_SumDifferenceProduct ==
    (ret.op \in {"add", "sub", "mul"} /\ ret.other.t = "Differentiable") =>
        /\ Made
        /\ \A x \in Points :
            LET f == ret.self
                g == ret.other.v
                h == ret.out.v
            IN  (IsNum(V(f, x)) /\ IsNum(D(f, x)) /\ IsNum(V(g, x)) /\ IsNum(D(g, x))) =>
                /\ ret.op = "add" =>
                      /\ V(h, x) = Add(V(f, x), V(g, x))
                      /\ D(h, x) = Add(D(f, x), D(g, x))
                /\ ret.op = "sub" =>
                      /\ V(h, x) = Sub(V(f, x), V(g, x))
                      /\ D(h, x) = Sub(D(f, x), D(g, x))
                /\ ret.op = "mul" =>
                      /\ V(h, x) = Mul(V(f, x), V(g, x))
                      /\ D(h, x) = Add(Mul(D(g, x), V(f, x)), Mul(D(f, x), V(g, x)))
                      /\ (heap[f].kind = "Linear" /\ heap[g].kind = "Linear") =>
                            LET a == heap[f].constant
                                b == heap[g].constant
                            IN  /\ V(h, x) = Whole(a * b * x * x)
                                /\ D(h, x) = Whole(2 * a * b * x)

\* Linear(2) * Linear(-1) was built: at x = 2 its value is -8, its derivative -8.
C2_Witness ==
    /\ ret.op = "mul" /\ Made /\ ret.other.t = "Differentiable"
    /\ heap[ret.self].kind = "Linear" /\ heap[ret.self].constant = 2
    /\ heap[ret.other.v].kind = "Linear" /\ heap[ret.other.v].constant = -1
    /\ V(ret.out.v, 2) = Whole(-8)
    /\ D(ret.out.v, 2) = Whole(-8)

\* The quotient rule of f / g at x, with g(x) and the other mappings as found.
QuotientValue(f, g, x) == Div(V(f, x), V(g, x))
QuotientDerivative(f, g, x) ==
    Div(Sub(Mul(D(f, x), V(g, x)), Mul(D(g, x), V(f, x))), Pow2(V(g, x)))

\* C3 as stated: for every f, g and x, where g(x) is not zero f / g follows
\* the quotient rule, and where g(x) is exactly zero both the value and the
\* derivative of f / g fail with ZeroDivisionError; building f / g never fails.
C3_AsStated ==
    (ret.op = "truediv" /\ ret.other.t = "Differentiable") =>
        /\ Made
        /\ \A x \in Points :
            LET f == ret.self
                g == ret.other.v
                h == ret.out.v
            IN  /\ (IsNum(V(g, x)) /\ ~IsZero(V(g, x))) =>
                      /\ V(h, x) = QuotientValue(f, g, x)
                      /\ D(h, x) = QuotientDerivative(f, g, x)
                /\ IsZero(V(g, x)) =>
                      /\ V(h, x).e = "ZeroDivisionError"
                      /\ D(h, x).e = "ZeroDivisionError"

\* C3, amended: as stated, except that where g(x) is exactly zero the value
\* fails with ZeroDivisionError only if f(x) itself succeeds, and the
\* derivative only if f'(x), g'(x) and f(x) succeed; otherwise the first of
\* these mappings to fail, in that order, decides the error.
C3_QuotientRule ==
    (ret.op = "truediv" /\ ret.other.t = "Differentiable") =>
        /\ Made
        /\ \A x \in Points :
            LET f == ret.self
                g == ret.other.v
                h == ret.out.v
            IN  /\ (IsNum(V(g, x)) /\ ~IsZero(V(g, x))) =>
                      /\ V(h, x) = QuotientValue(f, g, x)
                      /\ D(h, x) = QuotientDerivative(f, g, x)
                /\ IsZero(V(g, x)) =>
                      /\ V(h, x) = IF IsErr(V(f, x)) THEN V(f, x)
                                   ELSE Raise("ZeroDivisionError")
                      /\ D(h, x) = IF IsErr(D(f, x)) THEN D(f, x)
                                   ELSE IF IsErr(D(g, x)) THEN D(g, x)
                                   ELSE IF IsErr(V(f, x)) THEN V(f, x)
                                   ELSE Raise("ZeroDivisionError")

\* Linear(2) / Linear(-1) was built: the quotient is -2 with derivative 0 at
\* x = 2, and both fail with ZeroDivisionError at x = 0, where g is zero.
C3_Witness ==
    /\ ret.op = "truediv" /\ Made /\ ret.other.t = "Differentiable"
    /\ heap[ret.self].kind = "Linear" /\ heap[ret.self].constant = 2
    /\ heap[ret.other.v].kind = "Linear" /\ heap[ret.other.v].constant = -1
    /\ V(ret.out.v, 2) = Whole(-2)
    /\ D(ret.out.v, 2) = Whole(0)
    /\ IsZero(V(ret.other.v, 0))
    /\ V(ret.out.v, 0).e = "ZeroDivisionError"
    /\ D(ret.out.v, 0).e = "ZeroDivisionError"

\* C5 as stated: for every f and x, Sqrt(f).value(x) fails with ValueError
\* where f.value(x) < 0; where f.value(x) = 0 the value is 0 and the
\* derivative fails with ZeroDivisionError; where f.value(x) > 0 both succeed,
\* with value sqrt(f.value(x)) and derivative 0.5 * f.derivative(x) /
\* sqrt(f.value(x)).
C5_AsStated ==
    (ret.op = "Sqrt" /\ ret.other.t = "Differentiable") =>
        /\ Made
        /\ \A x \in Points :
            LET f  == ret.other.v
                h  == ret.out.v
                fv == V(f, x)
            IN  IsNum(fv) =>
                /\ fv.n < 0 => V(h, x).e = "ValueError"
                /\ fv.n = 0 =>
                      /\ V(h, x) = Whole(0)
                      /\ D(h, x).e = "ZeroDivisionError"
                /\ fv.n > 0 =>
                      /\ V(h, x) = MathSqrt(fv)
                      /\ IsNum(V(h, x))
                      /\ D(h, x) = Div(Mul(Half, D(f, x)), MathSqrt(fv))
                      /\ IsNum(D(h, x))

\* C5, amended: as stated for the value; the derivative of Sqrt(f) fails with
\* f.derivative(x)'s own error where f.derivative(x) fails, and otherwise
\* fails with ZeroDivisionError where f.value(x) = 0 (whatever number
\* f.derivative(x) is) and is 0.5 * f.derivative(x) / sqrt(f.value(x)) where
\* f.value(x) > 0.
C5_SqrtDomains ==
    (ret.op = "Sqrt" /\ ret.other.t = "Differentiable") =>
        /\ Made
        /\ \A x \in Points :
            LET f  == ret.other.v
                h  == ret.out.v
                fv == V(f, x)
            IN  IsNum(fv) =>
                /\ fv.n < 0 => V(h, x).e = "ValueError"
                /\ fv.n = 0 =>
                      /\ V(h, x) = Whole(0)
                      /\ D(h, x) = IF IsErr(D(f, x)) THEN D(f, x)
                                   ELSE Raise("ZeroDivisionError")
                /\ fv.n > 0 =>
                      /\ V(h, x) = MathSqrt(fv)
                      /\ IsNum(V(h, x))
                      /\ D(h, x) = IF IsErr(D(f, x)) THEN D(f, x)
                                   ELSE Div(Mul(Half, D(f, x)), MathSqrt(fv))
                      /\ IsNum(D(f, x)) => IsNum(D(h, x))

\* Sqrt(Linear(2)) was built: it fails with ValueError at x = -1, is 0 with a
\* ZeroDivisionError derivative at x = 0 (where f' = 2), and is 2 with
\* derivative 1/2 at x = 2; and Sqrt(Linear(0)) has f = f' = 0 everywhere.
C5_Witness ==
    /\ ret.op = "Sqrt" /\ Made /\ ret.other.t = "Differentiable"
    /\ heap[ret.other.v].kind = "Linear" /\ heap[ret.other.v].constant = 2
    /\ V(ret.out.v, -1).e = "ValueError"
    /\ V(ret.out.v, 0) = Whole(0)
    /\ D(ret.out.v, 0).e = "ZeroDivisionError"
    /\ V(ret.out.v, 2) = Whole(2)
    /\ D(ret.out.v, 2) = Num(1, 2)

\* C8: no call changes an object that already exists: every callable of
\* every existing object returns at every point what it returned before the
\* call, and an object a call returns is a new one, distinct from every
\* existing object (hence from its operands).
C8_OperandsUnchanged ==
    [][ /\ Len(heap') >= Len(heap)
        /\ \A i \in 1..Len(heap) :
              /\ heap'[i] = heap[i]
              /\ \A x \in Points :
                    /\ Value(heap', i, x) = Value(heap, i, x)
                    /\ Derivative(heap', i, x) = Derivative(heap, i, x)
        /\ ret'.out.t = "Differentiable" =>
              /\ ret'.out.v \notin 1..Len(heap)
              /\ ret'.out.v \in 1..Len(heap') ]_vars

\* One object is an operand of two later composites, in one of them as both
\* operands, and still evaluates as the Linear(2) it was built as.
C8_Witness ==
    /\ Len(heap) = 3
    /\ heap[1].kind = "Linear" /\ heap[1].constant = 2
    /\ heap[2].kind = "AddConstant" /\ heap[2].one = 1
    /\ heap[3].kind = "MultiplyDifferentiable"
    /\ heap[3].one = 1 /\ heap[3].other = Ref(1)
    /\ V(1, 2) = Whole(4) /\ D(1, 2) = Whole(2)
    /\ V(3, 2) = Whole(16)

\* Whether the combinator's own arithmetic is outside its domain at x although
\* every operand callable it invoked succeeded: a zero divisor, or a square
\* root of a negative number (of zero, for the derivative).
OwnFailure(i, w, x) ==
    LET n == heap[i] IN
    CASE n.kind = "TrueDivDifferentiable" -> IsZero(ValueOf(heap, n.other, x))
      [] n.kind = "Sqrt" ->
            LET fv == ValueOf(heap, n.other, x)
            IN  IsNum(fv) /\ (fv.n < 0 \/ (w = "derivative" /\ fv.n = 0))
      [] OTHER -> FALSE

\* C9: wherever evaluating a composite invokes an operand callable, directly
\* or through any nesting, that fails with ValueError or ZeroDivisionError,
\* the composite's evaluation fails with exactly that error; and an
\* evaluation whose invoked operand callables all succeed returns a number
\* unless the composite's own division or square root is outside its domain
\* there.
C9_ErrorsPropagate ==
    \A i \in 1..Len(heap), w \in {"value", "derivative"}, x \in Points :
        LET t == Trace(heap, i, w, x)
            r == Result(heap, i, w, x)
        IN  /\ \A c \in t :
                  c.r.e \in {"ValueError", "ZeroDivisionError"} => r = c.r
            /\ (heap[i].kind # "Raw" /\ \A c \in t : IsNum(c.r)) =>
                  (IsNum(r) <=> ~OwnFailure(i, w, x))

\* A ValueError raised by math.sqrt in a raw callable at x = -1 comes
\* unchanged through Sin and then through a quotient, whose derivative at
\* x = 2 (where nothing fails) is a number.
C9_Witness ==
    /\ Len(heap) = 3
    /\ heap[1].kind = "Raw" /\ heap[1].vf = "msqrt"
    /\ heap[2].kind = "Sin" /\ heap[2].other = Ref(1)
    /\ heap[3].kind = "TrueDivDifferentiable"
    /\ heap[3].one = 2 /\ heap[3].other = Ref(1)
    /\ V(1, -1).e = "ValueError"
    /\ V(3, -1).e = "ValueError" /\ D(3, -1).e = "ValueError"
    /\ D(3, 0).e = "ZeroDivisionError"
    /\ IsNum(D(3, 2))

Operators == {"add", "radd", "sub", "rsub", "mul", "rmul", "truediv"}

\* C10: calling an object with a visitor runs the visitor's visit method
\* exactly once, with the object itself as argument, and returns what visit
\* returned (the spy's "ok", leaving the heap as it was); every operator
\* application that returns performs exactly one such call on its receiver.
C10_SingleDispatch ==
    /\ ret.op = "call" =>
          /\ ret.visits = 1
          /\ ret.arg = ret.self
          /\ ret.exc = "none"
          /\ ret.out = StrOp
    /\ (ret.op \in Operators /\ ret.exc = "none") =>
          /\ ret.visits = 1
          /\ ret.arg = ret.self
          /\ ret.out = Ref(Len(heap))
          /\ heap[Len(heap)].one = ret.self

\* A raw Differentiable built from two callables was called with the spy.
C10_Witness ==
    /\ ret.op = "call"
    /\ heap[ret.self].kind = "Raw"
    /\ ret.visits = 1 /\ ret.arg = ret.self /\ ret.out = StrOp

Scalar(o) == o.t \in {"float", "int"}

\* C1 as stated: for every scalar c given as the right-hand operand, of type
\* int or float, f + c, f - c and f * c each return a new Differentiable with
\* value f(x) + c, f(x) - c, c * f(x) and derivative f'(x), f'(x), c * f'(x).
C1_AsStated ==
    (ret.op \in {"add", "sub", "mul"} /\ Scalar(ret.other)) =>
        /\ Made
        /\ ret.out.v = Len(heap)
        /\ \A x \in Points :
            LET f == ret.self
                h == ret.out.v
            IN  /\ ret.op = "add" =>
                      V(h, x) = Add(V(f, x), C) /\ D(h, x) = D(f, x)
                /\ ret.op = "sub" =>
                      V(h, x) = Sub(V(f, x), C) /\ D(h, x) = D(f, x)
                /\ ret.op = "mul" =>
                      V(h, x) = Mul(C, V(f, x)) /\ D(h, x) = Mul(C, D(f, x))

\* C4 as stated: for every scalar c, c + f and c * f return what f + c and
\* f * c return, with the same value and derivative at every point; c - f has
\* value c - f(x) and derivative -f'(x), while f - c has derivative f'(x);
\* reverse subtraction with a Differentiable operand g follows the difference
\* rule receiver minus operand.
C4_AsStated ==
    /\ (ret.op \in {"radd", "rmul", "rsub"} /\ Scalar(ret.other)) =>
        /\ Made
        /\ \A x \in Points :
            LET f == ret.self
                h == ret.out.v
            IN  /\ ret.op = "radd" =>
                      LET fwd == add_operator(heap, f, ret.other)
                      IN  /\ fwd.exc = "none"
                          /\ V(h, x) = Value(fwd.heap, fwd.out.v, x)
                          /\ D(h, x) = Derivative(fwd.heap, fwd.out.v, x)
                          /\ V(h, x) = Add(V(f, x), C) /\ D(h, x) = D(f, x)
                /\ ret.op = "rmul" =>
                      LET fwd == mul_operator(heap, f, ret.other)
                      IN  /\ fwd.exc = "none"
                          /\ V(h, x) = Value(fwd.heap, fwd.out.v, x)
                          /\ D(h, x) = Derivative(fwd.heap, fwd.out.v, x)
                          /\ V(h, x) = Mul(C, V(f, x)) /\ D(h, x) = Mul(C, D(f, x))
                /\ ret.op = "rsub" =>
                      V(h, x) = Sub(C, V(f, x)) /\ D(h, x) = Neg(D(f, x))
    /\ (ret.op = "sub" /\ Scalar(ret.other)) =>
        /\ Made
        /\ \A x \in Points : D(ret.out.v, x) = D(ret.self, x)
    /\ (ret.op = "rsub" /\ ret.other.t = "Differentiable") =>
        /\ Made
        /\ \A x \in Points :
              /\ V(ret.out.v, x) = Sub(V(ret.self, x), V(ret.other.v, x))
              /\ D(ret.out.v, x) = Sub(D(ret.self, x), D(ret.other.v, x))

\* C6 as stated: no constructor and no operator raises or invokes a value or
\* derivative callable while it builds its result: the constructors with any
\* argument, the operators with any scalar or Differentiable operand.
C6_AsStated ==
    /\ ret.op \in {"Differentiable", "Constant", "Linear", "Sqrt", "Cos", "Sin"} =>
          Made /\ ret.invoked = 0
    /\ (ret.op \in Operators /\ (Scalar(ret.other) \/ ret.other.t = "Differentiable")) =>
          Made /\ ret.invoked = 0

\* C7 as stated: each of the five combinators, given an operand that is
\* neither a scalar nor a Differentiable, fails with the dispatch error; and
\* division by a bare scalar never yields a composite that evaluates to a
\* number.
C7_AsStated ==
    /\ (ret.op \in Operators /\ ~Scalar(ret.other) /\ ret.other.t # "Differentiable") =>
          ret.exc = "KeyError"
    /\ (ret.op = "truediv" /\ Scalar(ret.other)) =>
          \/ ret.exc # "none"
          \/ \A x \in Points : IsErr(V(ret.out.v, x)) /\ IsErr(D(ret.out.v, x))

====
